---- MODULE Spec2Model ----
(***************************************************************************)
(* A model of csv_parser::parse_csv (src/src/csv_parser/mod.rs): the file  *)
(* is opened, the csv reader swallows the first record as the header, and  *)
(* every later record goes through the filter_map closure (Row Filter and  *)
(* Field Coercer) one at a time.  Text is a sequence of characters, each   *)
(* character a one-element string; "U+00B2" stands for the single          *)
(* character SUPERSCRIPT TWO, a numeric character that is no ASCII digit.  *)
(***************************************************************************)
EXTENDS Integers, Sequences, FiniteSets, TLC

VARIABLES
    file_exists,   \* whether File::open(file_path) can succeed
    file,          \* what the reader yields for the file: a sequence of Result items
    pc,            \* position of parse_csv: "open", "header", "records", "done"
    pos,           \* number of reader items consumed so far
    vec,           \* the Vec<Data> being collected
    outcome,       \* how the call ended: "none", "Ok", "Err", "panic"
    returned,      \* the Vec<Data> handed to the caller (Ok only)
    panic_msg,     \* which expect/panic! fired
    coerced,       \* positions of the records that entered the Data { .. } literal
    date_arg,      \* argument of a direct Data::parse_date call (tests/test.rs)
    date_out,      \* its result
    date_pc        \* "call", "returned" or "panicked"; "idle" while parse_csv runs

vars == <<file_exists, file, pc, pos, vec, outcome, returned, panic_msg, coerced,
          date_arg, date_out, date_pc>>

csv_vars == <<file_exists, file, pc, pos, vec, outcome, returned, panic_msg, coerced>>

date_vars == <<date_arg, date_out, date_pc>>

(***************************************************************************)
(* Bounds                                                                  *)
(***************************************************************************)
MaxRecords == 3

(***************************************************************************)
(* Characters and text                                                     *)
(***************************************************************************)
AsciiDigits == <<"0", "1", "2", "3", "4", "5", "6", "7", "8", "9">>

IsAsciiDigit(c) == \E i \in 1..10 : AsciiDigits[i] = c

DigitValue(c) == (CHOOSE i \in 1..10 : AsciiDigits[i] = c) - 1

\* char::is_numeric: Unicode general categories Nd, Nl, No
IsNumeric(c) == IsAsciiDigit(c) \/ c = "U+00B2"

IsQuote(c) == c = "'" \/ c = "\""

IsWhitespace(c) == c = " " \/ c = "\t"

RECURSIVE TrimStart(_)
TrimStart(s) ==
    IF s # <<>> /\ IsWhitespace(Head(s)) THEN TrimStart(Tail(s)) ELSE s

RECURSIVE TrimEnd(_)
TrimEnd(s) ==
    IF s # <<>> /\ IsWhitespace(s[Len(s)])
    THEN TrimEnd(SubSeq(s, 1, Len(s) - 1))
    ELSE s

Trim(s) == TrimEnd(TrimStart(s))

Drop(s, n) == SubSeq(s, n + 1, Len(s))

Lower(c) ==
    CASE c = "I" -> "i" [] c = "N" -> "n" [] c = "F" -> "f" [] c = "A" -> "a"
      [] c = "T" -> "t" [] c = "Y" -> "y" [] OTHER -> c

LowerAll(s) == [i \in 1..Len(s) |-> Lower(s[i])]

\* Option<&str>
None == [some |-> FALSE, str |-> <<>>]

Some(s) == [some |-> TRUE, str |-> s]

\* StringRecord::get(i), i counted from 0
Get(record, i) == IF i < Len(record) THEN Some(record[i + 1]) ELSE None

(***************************************************************************)
(* NaiveDate::parse_from_str(str, "%Y%m%d"): three numeric items, each     *)
(* skipping leading whitespace and taking at least one and at most `max`   *)
(* ASCII digits (a signed year takes every digit that follows the sign),   *)
(* then nothing may be left over and the fields must name a calendar day.  *)
(***************************************************************************)
RECURSIVE DigitsValue(_)
DigitsValue(s) ==
    IF s = <<>> THEN 0
    ELSE 10 * DigitsValue(SubSeq(s, 1, Len(s) - 1)) + DigitValue(s[Len(s)])

RECURSIVE LeadingDigits(_, _)
LeadingDigits(s, max) ==
    IF max > 0 /\ s # <<>> /\ IsAsciiDigit(Head(s))
    THEN 1 + LeadingDigits(Tail(s), max - 1)
    ELSE 0

ScanResult(s, min, n) ==
    IF Len(s) < min THEN [ok |-> FALSE, err |-> "TooShort", val |-> 0, rest |-> s]
    ELSE IF n < min THEN [ok |-> FALSE, err |-> "Invalid", val |-> 0, rest |-> s]
    ELSE [ok |-> TRUE, err |-> "", val |-> DigitsValue(SubSeq(s, 1, n)), rest |-> Drop(s, n)]

\* scan::number(s, min, max)
ScanNumber(s, min, max) == ScanResult(s, min, LeadingDigits(s, max))

Negated(r) == [r EXCEPT !.val = 0 - r.val]

ScanSigned(s) ==
    IF s # <<>> /\ Head(s) = "-" THEN Negated(ScanNumber(Tail(s), 1, Len(s)))
    ELSE IF s # <<>> /\ Head(s) = "+" THEN ScanNumber(Tail(s), 1, Len(s))
    ELSE ScanNumber(s, 1, 4)

\* Numeric item Year: width 4, signed
ScanYear(s0) == ScanSigned(TrimStart(s0))

\* Numeric items Month and Day: width 2, unsigned
ScanTwoDigits(s0) == ScanNumber(TrimStart(s0), 1, 2)

IsLeapYear(y) == (y % 4 = 0 /\ y % 100 # 0) \/ y % 400 = 0

DaysInMonth(y, m) ==
    IF m = 2 THEN (IF IsLeapYear(y) THEN 29 ELSE 28)
    ELSE IF m \in {4, 6, 9, 11} THEN 30
    ELSE 31

\* NaiveDate::from_ymd_opt
ValidYmd(y, m, d) ==
    /\ y \in -262143..262142
    /\ m \in 1..12
    /\ d \in 1..DaysInMonth(y, m)

DateOk(y, m, d) == [ok |-> TRUE, y |-> y, m |-> m, d |-> d, err |-> ""]

DateErr(e) == [ok |-> FALSE, y |-> 0, m |-> 0, d |-> 0, err |-> e]

AfterDay(y, m, dy) ==
    IF ~dy.ok THEN DateErr(dy.err)
    ELSE IF dy.val \notin 1..31 THEN DateErr("OutOfRange")
    ELSE IF dy.rest # <<>> THEN DateErr("TooLong")
    ELSE IF ValidYmd(y, m, dy.val) THEN DateOk(y, m, dy.val)
    ELSE DateErr("OutOfRange")

AfterMonth(y, mo) ==
    IF ~mo.ok THEN DateErr(mo.err)
    ELSE IF mo.val \notin 1..12 THEN DateErr("OutOfRange")
    ELSE AfterDay(y, mo.val, ScanTwoDigits(mo.rest))

AfterYear(yr) ==
    IF ~yr.ok THEN DateErr(yr.err)
    ELSE AfterMonth(yr.val, ScanTwoDigits(yr.rest))

ParseFromStrYmd(s) == AfterYear(ScanYear(s))

ExpectDate(r) == [panic |-> ~r.ok, date |-> r]

\* a parse_date whose None arm yields 1970-01-01
parse_date_epoch(opt) ==
    IF opt.some THEN ExpectDate(ParseFromStrYmd(opt.str))
    ELSE [panic |-> FALSE, date |-> DateOk(1970, 1, 1)]

\* Data::parse_date: a value, or the panic of .expect(..)
parse_date(opt) ==
    IF opt.some THEN ExpectDate(ParseFromStrYmd(opt.str))
    ELSE [panic |-> FALSE, date |-> DateOk(2000, 1, 1)]

(***************************************************************************)
(* str::parse::<f32>(): an optional sign, then decimal digits with an      *)
(* optional point and an optional exponent, or inf, infinity, nan in any   *)
(* letter case; no surrounding whitespace.  A finite value is kept as the  *)
(* decimal m * 10^e with m free of trailing zeros; -0.0 and 0.0, equal     *)
(* under ==, are both m = 0.                                               *)
(***************************************************************************)
RECURSIVE Normalise(_, _)
Normalise(m, e) ==
    IF m = 0 THEN [kind |-> "finite", m |-> 0, e |-> 0]
    ELSE IF m % 10 = 0 THEN Normalise(m \div 10, e + 1)
    ELSE [kind |-> "finite", m |-> m, e |-> e]

F32Zero == [kind |-> "finite", m |-> 0, e |-> 0]

F32Err == [ok |-> FALSE, val |-> F32Zero]

F32Ok(v) == [ok |-> TRUE, val |-> v]

InfNan(low, neg) ==
    IF low = <<"n", "a", "n">> THEN F32Ok([kind |-> "nan", m |-> 0, e |-> 0])
    ELSE IF low = <<"i", "n", "f">> \/ low = <<"i", "n", "f", "i", "n", "i", "t", "y">>
    THEN F32Ok([kind |-> "inf", m |-> IF neg THEN -1 ELSE 1, e |-> 0])
    ELSE F32Err

ParseInfNan(body, neg) == InfNan(LowerAll(body), neg)

Signed(neg, v) == IF neg THEN 0 - v ELSE v

ExponentDigits(ex) == IF ex # <<>> /\ Head(ex) \in {"-", "+"} THEN Tail(ex) ELSE ex

ParseExponent(m, nf, eneg, edig) ==
    IF edig = <<>> \/ LeadingDigits(edig, Len(edig)) # Len(edig) THEN F32Err
    ELSE F32Ok(Normalise(m, Signed(eneg, DigitsValue(edig)) - nf))

AfterMantissa(m, nf, rest) ==
    IF rest = <<>> THEN F32Ok(Normalise(m, 0 - nf))
    ELSE IF Head(rest) \in {"e", "E"}
    THEN ParseExponent(m, nf, Len(rest) > 1 /\ rest[2] = "-", ExponentDigits(Tail(rest)))
    ELSE F32Err

ParseFraction(neg, body, ni, fracSrc, nf) ==
    IF ni + nf = 0 THEN ParseInfNan(body, neg)
    ELSE AfterMantissa(Signed(neg, DigitsValue(SubSeq(body, 1, ni) \o SubSeq(fracSrc, 1, nf))),
                       nf, Drop(fracSrc, nf))

AfterInteger(neg, body, ni, afterInt) ==
    IF afterInt # <<>> /\ Head(afterInt) = "."
    THEN ParseFraction(neg, body, ni, Tail(afterInt), LeadingDigits(Tail(afterInt), Len(afterInt)))
    ELSE ParseFraction(neg, body, ni, afterInt, 0)

ParseNumber(neg, body, ni) == AfterInteger(neg, body, ni, Drop(body, ni))

ParseUnsigned(neg, body) == ParseNumber(neg, body, LeadingDigits(body, Len(body)))

ParseF32(s) ==
    IF s = <<>> THEN F32Err
    ELSE ParseUnsigned(Head(s) = "-", IF Head(s) \in {"-", "+"} THEN Tail(s) ELSE s)

UnwrapOrZero(r) == IF r.ok THEN r.val ELSE F32Zero

\* .parse::<f32>().unwrap_or(0.0)
ParseAmount(s) == UnwrapOrZero(ParseF32(s))

(***************************************************************************)
(* Field texts                                                             *)
(***************************************************************************)
DEBIT == <<"D", "E", "B", "I", "T">>

CREDIT == <<"C", "R", "E", "D", "I", "T">>

NA == <<"N", "/", "A">>

\* a from_option_str whose last arm defaults to DEBIT instead of failing
from_option_str_defaulting(opt) ==
    IF opt.some /\ opt.str = CREDIT THEN [ok |-> TRUE, val |-> "CREDIT"]
    ELSE [ok |-> TRUE, val |-> "DEBIT"]

\* TransactionType::from_option_str
from_option_str(opt) ==
    IF opt.some /\ opt.str = DEBIT THEN [ok |-> TRUE, val |-> "DEBIT"]
    ELSE IF opt.some /\ opt.str = CREDIT THEN [ok |-> TRUE, val |-> "CREDIT"]
    ELSE [ok |-> FALSE, val |-> "Invalid transaction type provided"]

\* an unwrap_or that also replaces an empty present value
unwrap_or_nonempty(opt, default) ==
    IF opt.some /\ opt.str # <<>> THEN opt.str ELSE default

\* Option::unwrap_or
unwrap_or(opt, default) == IF opt.some THEN opt.str ELSE default

(***************************************************************************)
(* The body of the filter_map closure for an Ok(record)                    *)
(***************************************************************************)
\* record.len() > 5
valid_record_len_strict(record) == Len(record) > 5

\* record.len() >= 4
valid_record_len_four(record) == Len(record) >= 4

valid_record_len(record) == Len(record) >= 5

AllNumericOrQuote(first) ==
    \A i \in 1..Len(first) : IsNumeric(first[i]) \/ IsQuote(first[i])

valid_first_item(record) ==
    AllNumericOrQuote(unwrap_or(Get(record, 0), <<"d", "e", "f", "a", "u", "l", "t">>))

any_field_not_empty(record) == \E i \in 1..Len(record) : record[i] # <<>>

NoData == [transaction_type |-> "", date |-> <<0, 0, 0>>, amount |-> F32Zero,
           description |-> <<>>, category |-> ""]

\* Data { .. }: fields are evaluated in order, the first panic wins
\* a Data literal whose amount is .parse::<f32>().expect(..)
MakeData_strict_amount(record, tt, dt, am) ==
    IF ~tt.ok THEN [panic |-> "transaction_type", data |-> NoData]
    ELSE IF dt.panic THEN [panic |-> "date", data |-> NoData]
    ELSE IF ~am.some THEN [panic |-> "unwrap", data |-> NoData]
    ELSE IF ~ParseF32(am.str).ok THEN [panic |-> "amount", data |-> NoData]
    ELSE [panic |-> "",
          data |-> [transaction_type |-> tt.val,
                    date |-> <<dt.date.y, dt.date.m, dt.date.d>>,
                    amount |-> ParseAmount(am.str),
                    description |-> Trim(unwrap_or(Get(record, 4), NA)),
                    category |-> "Other"]]

MakeData(record, tt, dt, am) ==
    IF ~tt.ok THEN [panic |-> "transaction_type", data |-> NoData]
    ELSE IF dt.panic THEN [panic |-> "date", data |-> NoData]
    ELSE IF ~am.some THEN [panic |-> "unwrap", data |-> NoData]
    ELSE [panic |-> "",
          data |-> [transaction_type |-> tt.val,
                    date |-> <<dt.date.y, dt.date.m, dt.date.d>>,
                    amount |-> ParseAmount(am.str),
                    description |-> Trim(unwrap_or(Get(record, 4), NA)),
                    category |-> "Other"]]

Coerce(record) ==
    MakeData(record, from_option_str(Get(record, 1)), parse_date(Get(record, 2)),
             Get(record, 3))

(***************************************************************************)
(* Input files: what the reader yields, an Ok(record) or an Err(e), for    *)
(* each record of the file.  Blank lines never become records.             *)
(***************************************************************************)
CardQuoted == <<"'", "6", "0", "'">>

CardDoubleQuote == <<"\"", "7">>

Card == <<"1", "2">>

CardSuperscript == <<"1", "U+00B2">>

CardLetter == <<"1", "A">>

Title == <<"C", "a", "r", "d">>

XFER == <<"X", "F", "E", "R">>

D20240603 == <<"2", "0", "2", "4", "0", "6", "0", "3">>

D20240610 == <<"2", "0", "2", "4", "0", "6", "1", "0">>

D2024063 == <<"2", "0", "2", "4", "0", "6", "3">>

DSlashes == <<"0", "5", "/", "0", "1", "/", "2", "0", "2", "4">>

Amt == <<"-", "1", "3", "7", "4", ".", "4", "7">>

Twelve == <<"1", "2">>

NanText == <<"N", "a", "N">>

DescPadded == <<" ", "M", "T", "G", " ", " ", "H", "Y", "P", " ">>

Desc == <<"F", "E", "E">>

OkItem(record) == [ok |-> TRUE, record |-> record]

ErrItem == [ok |-> FALSE, record |-> <<>>]

RowGood == OkItem(<<CardQuoted, DEBIT, D20240603, Amt, DescPadded>>)

RowCredit == OkItem(<<CardDoubleQuote, CREDIT, D20240610, Twelve, Desc, Title>>)

RowXfer == OkItem(<<Card, XFER, D20240603, Amt, Desc>>)

RowNoType == OkItem(<<Card, <<>>, D20240610, Twelve, Desc>>)

RowShort == OkItem(<<Card, XFER, DSlashes, NA>>)

RowTitle == OkItem(<<Title>>)

RowLetter == OkItem(<<CardLetter, XFER, DSlashes, NA, <<>>>>)

RowSuperscript == OkItem(<<CardSuperscript, DEBIT, D20240603, Twelve, Desc>>)

RowSlashes == OkItem(<<Card, DEBIT, DSlashes, Amt, Desc>>)

RowSevenDigits == OkItem(<<Card, CREDIT, D2024063, Amt, Desc>>)

RowNoDate == OkItem(<<Card, DEBIT, <<>>, Amt, Desc>>)

RowNaAmount == OkItem(<<Card, DEBIT, D20240610, NA, <<>>>>)

RowNoAmount == OkItem(<<<<>>, CREDIT, D20240603, <<>>, DescPadded>>)

RowNan == OkItem(<<Card, DEBIT, D20240610, NanText, Desc>>)

RowBlank == OkItem(<<<<>>, <<>>, <<>>, <<>>, <<>>>>)

\* the first record of a file; a first record that is not valid UTF-8 is left out
FirstItems == {RowTitle, RowGood, RowXfer, RowShort, RowSlashes}

LaterItems ==
    {RowGood, RowCredit, RowXfer, RowNoType, RowShort, RowTitle, RowLetter,
     RowSuperscript, RowSlashes, RowSevenDigits, RowNoDate, RowNaAmount,
     RowNoAmount, RowNan, RowBlank, ErrItem}

\* the sequences over S of length at most n
SeqsUpTo(S, n) == UNION {[1..k -> S] : k \in 0..n}

Files ==
    {<<>>} \cup {<<h>> \o t : h \in FirstItems, t \in SeqsUpTo(LaterItems, MaxRecords - 1)}

NotReturned == [some |-> FALSE, vec |-> <<>>]

(***************************************************************************)
(* parse_csv                                                               *)
(***************************************************************************)
DateIdle == /\ date_arg = None
            /\ date_out = [panic |-> FALSE, date |-> DateErr("")]
            /\ date_pc = "idle"

Init ==
    /\ file_exists \in BOOLEAN
    /\ file \in (IF file_exists THEN Files ELSE {<<>>})
    /\ pc = "open"
    /\ pos = 0
    /\ vec = <<>>
    /\ outcome = "none"
    /\ returned = NotReturned
    /\ panic_msg = ""
    /\ coerced = {}
    /\ DateIdle

\* let file = File::open(file_path)?;
Open ==
    /\ pc = "open"
    /\ IF file_exists
       THEN /\ pc' = "header"
            /\ outcome' = outcome
       ELSE /\ pc' = "done"
            /\ outcome' = "Err"
    /\ UNCHANGED <<file_exists, file, pos, vec, returned, panic_msg, coerced>>
    /\ UNCHANGED date_vars

\* a reader built with has_headers(false): the first record is data
ReadHeader_no_headers ==
    /\ pc = "header"
    /\ pos' = 0
    /\ pc' = "records"
    /\ UNCHANGED <<file_exists, file, vec, outcome, returned, panic_msg, coerced>>
    /\ UNCHANGED date_vars

\* ReaderBuilder::new() keeps has_headers(true): the first record is taken as
\* the header row by the first call of the records() iterator
ReadHeader ==
    /\ pc = "header"
    /\ pos' = (IF Len(file) > 0 THEN 1 ELSE 0)
    /\ pc' = "records"
    /\ UNCHANGED <<file_exists, file, vec, outcome, returned, panic_msg, coerced>>
    /\ UNCHANGED date_vars

Coerced(c) ==
    IF c.panic # ""
    THEN [kind |-> "panic", msg |-> c.panic, data |-> NoData, coerce |-> TRUE]
    ELSE [kind |-> "some", msg |-> "", data |-> c.data, coerce |-> TRUE]

Filtered == [kind |-> "none", msg |-> "", data |-> NoData, coerce |-> FALSE]

\* the filter_map closure on one item of rdr.records()
Closure(item) ==
    IF ~item.ok THEN [kind |-> "panic", msg |-> "csv", data |-> NoData, coerce |-> FALSE]
    ELSE IF ~valid_record_len(item.record) \/ ~valid_first_item(item.record) THEN Filtered
    ELSE IF any_field_not_empty(item.record) THEN Coerced(Coerce(item.record))
    ELSE Filtered

Apply(r) ==
    /\ pos' = pos + 1
    /\ coerced' = (IF r.coerce THEN coerced \cup {pos + 1} ELSE coerced)
    /\ vec' = (IF r.kind = "some" THEN Append(vec, r.data) ELSE vec)
    /\ IF r.kind = "panic"
       THEN /\ pc' = "done"
            /\ outcome' = "panic"
            /\ panic_msg' = r.msg
       ELSE UNCHANGED <<pc, outcome, panic_msg>>

FilterMapStep ==
    /\ pc = "records"
    /\ pos < Len(file)
    /\ Apply(Closure(file[pos + 1]))
    /\ UNCHANGED <<file_exists, file, returned>>
    /\ UNCHANGED date_vars

\* .collect(); Ok(vec)
Collect ==
    /\ pc = "records"
    /\ pos = Len(file)
    /\ pc' = "done"
    /\ outcome' = "Ok"
    /\ returned' = [some |-> TRUE, vec |-> vec]
    /\ UNCHANGED <<file_exists, file, pos, vec, panic_msg, coerced>>
    /\ UNCHANGED date_vars

Next == Open \/ ReadHeader \/ FilterMapStep \/ Collect

Spec == Init /\ [][Next]_vars

(***************************************************************************)
(* Data::parse_date called on its own, as tests/test.rs does               *)
(***************************************************************************)
DatePrefixes == {<<>>, <<" ">>, <<"+">>, <<"-">>}

DateYears == {<<"2", "0", "2", "4">>, <<"2", "0", "2", "3">>, <<"9", "9">>}

DateMonths == {<<"0", "6">>, <<"6">>, <<"0", "2">>, <<"1", "3">>, <<"/", "1">>, <<" ", "2">>}

DateDays == {<<"1", "0">>, <<"3">>, <<"2", "9">>, <<"3", "1">>, <<>>}

DateSuffixes == {<<>>, <<" ">>, <<"1">>}

DateTexts ==
    {DSlashes, D20240610}
    \cup {p \o y \o m \o d \o q : p \in DatePrefixes, y \in DateYears, m \in DateMonths,
                                  d \in DateDays, q \in DateSuffixes}

DateArgs == {None} \cup {Some(t) : t \in DateTexts}

CsvIdle ==
    /\ file_exists = FALSE
    /\ file = <<>>
    /\ pc = "idle"
    /\ pos = 0
    /\ vec = <<>>
    /\ outcome = "none"
    /\ returned = NotReturned
    /\ panic_msg = ""
    /\ coerced = {}

InitParseDate ==
    /\ CsvIdle
    /\ date_arg \in DateArgs
    /\ date_out = [panic |-> FALSE, date |-> DateErr("")]
    /\ date_pc = "call"

CallParseDate ==
    /\ date_pc = "call"
    /\ date_out' = parse_date(date_arg)
    /\ date_pc' = (IF date_out'.panic THEN "panicked" ELSE "returned")
    /\ UNCHANGED date_arg
    /\ UNCHANGED csv_vars

NextParseDate == CallParseDate

SpecParseDate == InitParseDate /\ [][NextParseDate]_vars

(***************************************************************************)
(* Vocabulary of the properties                                            *)
(***************************************************************************)
\* the admission criteria: at least 5 fields, a first field of numeric
\* characters and quote marks only, not every field empty
AdmissionCriteria(record) ==
    /\ Len(record) >= 5
    /\ \A k \in 1..Len(record[1]) : IsNumeric(record[1][k]) \/ IsQuote(record[1][k])
    /\ \E k \in 1..Len(record) : record[k] # <<>>

AdmittedItem(item) == item.ok /\ AdmissionCriteria(item.record)

ValidType(text) == text = DEBIT \/ text = CREDIT

\* the reader items after the header row
DataItems == IF file = <<>> THEN <<>> ELSE Tail(file)

RecordsOf(items) == [k \in 1..Len(items) |-> Coerce(items[k].record).data]

\* the closure is about to run on item i
AtItem(i) == pc = "records" /\ pos + 1 = i /\ i <= Len(file)

\* item i made the parse panic
AbortedAt(i) == pc = "done" /\ outcome = "panic" /\ pos = i

\* item i went through the Data literal and gave a record
Produced(i) == i \in coerced /\ ~AbortedAt(i)

\* the record item i gave
RecordOfItem(i) == vec[Cardinality({j \in coerced : j <= i})]

(***************************************************************************)
(* C1: an admitted row whose transaction type is neither DEBIT nor CREDIT  *)
(* (the empty text included) makes parse_csv abort, and the caller gets no *)
(* records, not even those of the valid rows before it.                    *)
(***************************************************************************)
C1_InvalidTypeAborts ==
    \A i \in 2..Len(file) :
        (AdmittedItem(file[i]) /\ ~ValidType(file[i].record[2]))
            => /\ outcome # "Ok"
               /\ returned = NotReturned
               /\ pos <= i
               /\ pos = i => AbortedAt(i)
               /\ pc = "done" => outcome = "panic"

C1_Witness ==
    /\ AbortedAt(3)
    /\ panic_msg = "transaction_type"
    /\ file[3].record[2] = <<>>
    /\ Len(vec) = 1
    /\ returned = NotReturned

(***************************************************************************)
(* C2: every call of parse_csv ends by returning a value to its caller,    *)
(* Ok(records) or Err(error); invalid content and malformed CSV reach the  *)
(* caller as a returned error.                                             *)
(***************************************************************************)
C2_AlwaysReturns == pc = "done" => outcome \in {"Ok", "Err"}

C4_ShortRowDropped ==
    [][\A i \in 1..Len(file) :
          (AtItem(i) /\ file[i].ok /\ Len(file[i].record) < 5)
              => /\ vec' = vec
                 /\ coerced' = coerced
                 /\ pc' = "records"
                 /\ outcome' = "none"
                 /\ pos' = i]_vars

C4_Witness ==
    /\ pc = "records"
    /\ pos = 2
    /\ file[2] = RowShort
    /\ ~ValidType(file[2].record[2])
    /\ vec = <<>>

(***************************************************************************)
(* C5: a row whose first field holds a character that is neither a decimal *)
(* digit 0-9 nor a quote mark is rejected: it reaches no coercion, gives   *)
(* no record and cannot abort the parse.                                   *)
(***************************************************************************)
HasForeignCharacter(text) ==
    \E k \in 1..Len(text) : ~IsAsciiDigit(text[k]) /\ ~IsQuote(text[k])

C5_NonDigitFirstFieldRejected ==
    \A i \in 2..pos :
        (file[i].ok /\ HasForeignCharacter(file[i].record[1]))
            => i \notin coerced /\ ~AbortedAt(i)

(***************************************************************************)
(* C6: an admitted row whose date field is non-empty and is not an 8-digit *)
(* year-month-day text aborts the parse and gives no record.               *)
(***************************************************************************)
IsEightDigits(text) == Len(text) = 8 /\ \A k \in 1..8 : IsAsciiDigit(text[k])

C6_MalformedDateAborts ==
    \A i \in 2..pos :
        (AdmittedItem(file[i]) /\ file[i].record[3] # <<>>
                               /\ ~IsEightDigits(file[i].record[3]))
            => AbortedAt(i)

(***************************************************************************)
(* C7: an admitted row whose amount field does not parse as a number gives *)
(* a record with amount 0.0 and the other fields coerced as usual; the     *)
(* amount raises no error and the parse goes on with the next row.         *)
(***************************************************************************)
WithAmount(record, text) == [record EXCEPT ![4] = text]

C8_AbsentDateDefault ==
    date_pc # "call" =>
        /\ ~date_arg.some =>
              date_pc = "returned" /\ date_out = [panic |-> FALSE, date |-> DateOk(2000, 1, 1)]
        /\ date_arg = Some(D20240610) =>
              date_pc = "returned" /\ date_out = [panic |-> FALSE, date |-> DateOk(2024, 6, 10)]

C8_Witness ==
    /\ date_pc = "returned"
    /\ date_arg = None
    /\ date_out.date = DateOk(2000, 1, 1)

(***************************************************************************)
(* C9: the first row of the file is taken as the header: whatever it       *)
(* holds, it reaches neither filter nor coercion, gives no record and      *)
(* cannot abort the parse.                                                 *)
(***************************************************************************)
C9_HeaderRowSkipped ==
    /\ 1 \notin coerced
    /\ ~AbortedAt(1)
    /\ pos <= 1 => vec = <<>> /\ outcome \in {"none", "Ok", "Err"}
    /\ Len(vec) <= Len(DataItems)

C9_Witness ==
    /\ outcome = "Ok"
    /\ Len(file) = 2
    /\ AdmittedItem(file[1])
    /\ ~ValidType(file[1].record[2])
    /\ file[2] = RowGood
    /\ Len(returned.vec) = 1

(***************************************************************************)
(* C10: every row that reaches the coercion has fields 1 to 4 present, so  *)
(* the absent-field defaults are not taken: an admitted row with an empty  *)
(* date aborts the parse, and an admitted row with an empty description    *)
(* gives the description "" and not "N/A".                                 *)
(***************************************************************************)
C10_FallbacksNeverTaken ==
    \A i \in 2..pos :
        /\ i \in coerced =>
              /\ Len(file[i].record) >= 5
              /\ \A n \in 1..4 : Get(file[i].record, n).some
        /\ (AdmittedItem(file[i]) /\ ValidType(file[i].record[2])
                                  /\ file[i].record[3] = <<>>)
              => AbortedAt(i) /\ panic_msg = "date"
        /\ (Produced(i) /\ file[i].record[5] = <<>>)
              => RecordOfItem(i).description = <<>>
        /\ (Produced(i) /\ Trim(file[i].record[5]) # NA)
              => RecordOfItem(i).description # NA

C10_Witness ==
    /\ AbortedAt(3)
    /\ panic_msg = "date"
    /\ file[3].record[3] = <<>>
    /\ AdmittedItem(file[2])
    /\ file[2].record[5] = <<>>
    /\ Len(vec) = 1
    /\ vec[1].description = <<>>

====
